---- MODULE Spec2Model ----
(***************************************************************************)
(* A model of core/sherlock/indexer.py: the Indexer wrapper around a       *)
(* Whoosh index (create_in / open_dir / writer / add_document / commit),   *)
(* the module functions get_indexer and index_path, and Index.search_path. *)
(*                                                                         *)
(* A file name is a sequence of characters and a path is a sequence of     *)
(* names, so that basename, startswith, endswith and os.path.join are      *)
(* computed rather than assumed.  Several Indexer instances (slots) work   *)
(* on the same index directories; an index_text call is one step for       *)
(* writer() and the directory listing, one step per _index_file call, and  *)
(* one step for commit(), so that other instances interleave with it.      *)
(***************************************************************************)
EXTENDS Naturals, Sequences, FiniteSets, TLC

\* ------------------------------------------------------------- bounds
\* Number of Indexer instances alive at once.
NumSlots == 2
\* Number of index_text and index_path calls in one run.
MaxCalls == 2

Slots == 1..NumSlots

\* ------------------------------------------------------------ options
\* Python's None and a present value: None is the empty set.
None == {}
Some(x) == {x}
The(s) == CHOOSE x \in s : TRUE

\* -------------------------------------------------------- file system
\* The directory tree the indexer is pointed at.
\*   p/        a   .h   b.o
\*   q/        c   s/ d
\*   r/        y (unreadable)   z
\*   i/        the directory holding the indexes (settings.INDEXES_PATH)
\* and no entry called n.
nP == <<"p">>
nQ == <<"q">>
nR == <<"r">>
nS == <<"s">>
nI == <<"i">>
nN == <<"n">>
nA == <<"a">>
nC == <<"c">>
nD == <<"d">>
nY == <<"y">>
nZ == <<"z">>
nHidden == <<".", "h">>
nObject == <<"b", ".", "o">>

Dirs == { <<nP>>, <<nQ>>, <<nQ, nS>>, <<nR>>, <<nI>> }
Files == { <<nP, nA>>, <<nP, nHidden>>, <<nP, nObject>>, <<nQ, nC>>,
           <<nQ, nS, nD>>, <<nR, nY>>, <<nR, nZ>> }
Unreadable == { <<nR, nY>> }

\* os.listdir(d): the names in directory d, in the order the system gives.
listdir(d) ==
    CASE d = <<nP>> -> <<nA, nHidden, nObject>>
      [] d = <<nQ>> -> <<nC, nS>>
      [] d = <<nQ, nS>> -> <<nD>>
      [] d = <<nR>> -> <<nY, nZ>>
      [] OTHER -> << >>

isdir(p) == p \in Dirs
isfile(p) == p \in Files
join(d, name) == Append(d, name)
basename(p) == p[Len(p)]
startswith(s, prefix) ==
    /\ Len(prefix) <= Len(s)
    /\ SubSeq(s, 1, Len(prefix)) = prefix
endswith(s, suffix) ==
    /\ Len(suffix) <= Len(s)
    /\ SubSeq(s, Len(s) - Len(suffix) + 1, Len(s)) = suffix

\* The elements of seq that are in keep, in order.
RECURSIVE SelectNames(_, _)
SelectNames(seq, keep) ==
    IF seq = << >> THEN << >>
    ELSE IF Head(seq) \in keep
         THEN <<Head(seq)>> \o SelectNames(Tail(seq), keep)
         ELSE SelectNames(Tail(seq), keep)

Range(seq) == { seq[k] : k \in 1..Len(seq) }

\* os.walk(top), top-down: one (dirpath, filenames) entry per directory.
RECURSIVE walk(_)
RECURSIVE walkAll(_, _)
walkAll(d, names) ==
    IF names = << >> THEN << >>
    ELSE walk(join(d, Head(names))) \o walkAll(d, Tail(names))
walk(d) ==
    LET names == listdir(d)
        dirnames == SelectNames(names, { n \in Range(names) : isdir(join(d, n)) })
        filenames == SelectNames(names, { n \in Range(names) : ~isdir(join(d, n)) })
    IN  << [dirpath |-> d, filenames |-> filenames] >> \o walkAll(d, dirnames)

\* ----------------------------------------------------------- settings
INDEXES_PATH == <<nI>>
INDEX_RECURSIVE == TRUE
EXCLUDE_FILE_SUFFIX == { <<".", "o">> }
Names == { <<"m", "a", "i", "n">> }

\* core.utils.read_file: the text of a readable regular file; an error for
\* a directory or an unreadable file.  The text of a file is its path.
read_file(filepath) ==
    IF filepath \in Files \ Unreadable
    THEN [exc |-> "none", contents |-> Some(filepath)]
    ELSE [exc |-> "IOError", contents |-> None]

\* -------------------------------------------------------------- state
VARIABLES
    disk,       \* per index name: the directory, the committed documents, the write lock
    indexers,   \* per slot: the fields of the Indexer instance
    frame,      \* per slot: the call in progress
    calls       \* the number of index_text and index_path calls made so far

vars == <<disk, indexers, frame, calls>>

\* Indexer.__init__
Indexer(name, rebuild_index, recursive) ==
    [ _index |-> None, _writer |-> None, _path |-> None, _name |-> name,
      _rebuild_index |-> rebuild_index, _is_recursive |-> recursive ]

NoFrame == [pc |-> "none", op |-> "none", path |-> << >>, todo |-> << >>]
Idle == [pc |-> "idle", op |-> "none", path |-> << >>, todo |-> << >>]
Gone == [pc |-> "gone", op |-> "none", path |-> << >>, todo |-> << >>]

\* Where a call leaves its instance: index_path drops the Indexer it made,
\* index_text leaves it to its caller.
Finished(op) == IF op = "index_path" THEN Gone ELSE Idle

\* whoosh create_in(path, schema): a fresh, empty index replaces what the
\* directory held.
create_in(dsk, name) ==
    [dsk EXCEPT ![name].dir = "index", ![name].toc = << >>]

\* whoosh open_dir(path): the existing index, or EmptyIndexError.
open_dir(dsk, name) ==
    IF dsk[name].dir = "index"
    THEN [exc |-> "none", index |-> Some(name)]
    ELSE [exc |-> "EmptyIndexError", index |-> None]

\* Indexer.open with the rebuild_index flag ignored: the index is always
\* opened, never created anew.
open_ignoring_rebuild(self, dsk, index_path) ==
    LET name == self._name
        path == join(index_path, name)
        made == IF dsk[name].dir = "absent"
                THEN [dsk EXCEPT ![name].dir = "empty", ![name].toc = << >>]
                ELSE dsk
        ready == [made EXCEPT ![name].dir = "index"]
    IN  IF ~isdir(index_path)
        THEN [self |-> self, disk |-> dsk, exc |-> "Exception"]
        ELSE [self |-> [self EXCEPT !._index = Some(name), !._path = Some(path)],
              disk |-> ready, exc |-> "none"]

\* Indexer.open
open(self, dsk, index_path) ==
    LET name == self._name
        path == join(index_path, name)
        made == IF dsk[name].dir = "absent"
                THEN [dsk EXCEPT ![name].dir = "empty"]
                ELSE dsk
        opened == open_dir(made, name)
    IN  IF ~isdir(index_path)
        THEN [self |-> self, disk |-> dsk, exc |-> "Exception"]
        ELSE IF self._rebuild_index
        THEN [self |-> [self EXCEPT !._index = Some(name), !._path = Some(path)],
              disk |-> create_in(made, name), exc |-> "none"]
        ELSE IF opened.exc # "none"
        THEN [self |-> self, disk |-> made, exc |-> opened.exc]
        ELSE [self |-> [self EXCEPT !._index = opened.index, !._path = Some(path)],
              disk |-> made, exc |-> "none"]

\* whoosh FileIndex.writer(): takes the index's write lock without waiting,
\* LockError when it is held.
writer(dsk, name, i) ==
    IF dsk[name].lock = 0
    THEN [exc |-> "none", disk |-> [dsk EXCEPT ![name].lock = i],
          writer |-> Some([buffer |-> << >>, closed |-> FALSE])]
    ELSE [exc |-> "LockError", disk |-> dsk, writer |-> None]

\* whoosh writer.add_document(**doc): buffered until commit.
add_document(w, doc) == [w EXCEPT !.buffer = Append(@, doc)]

\* whoosh writer.commit(): the buffered documents become part of the index
\* and the write lock is released.
commit(dsk, name, w) ==
    [dsk EXCEPT ![name].toc = @ \o w.buffer, ![name].lock = 0]

\* The write lock of an instance that is no more.
collect(dsk, i) ==
    [n \in Names |-> IF dsk[n].lock = i THEN [dsk[n] EXCEPT !.lock = 0] ELSE dsk[n]]

\* Indexer._index_dir: the paths it hands to _index_file, in order.
RECURSIVE walkItems(_)
walkItems(entries) ==
    IF entries = << >> THEN << >>
    ELSE LET e == Head(entries)
             can_index(name) ==
                 /\ \A suffix \in EXCLUDE_FILE_SUFFIX : ~endswith(name, suffix)
                 /\ ~startswith(name, <<".">>)
             kept == SelectNames(e.filenames,
                                 { n \in Range(e.filenames) : can_index(n) })
         IN  [k \in 1..Len(kept) |-> join(e.dirpath, kept[k])]
             \o walkItems(Tail(entries))

_index_dir(self, dpath) ==
    IF ~self._is_recursive
    THEN LET items == listdir(dpath)
         IN  [k \in 1..Len(items) |-> join(dpath, items[k])]
    ELSE walkItems(walk(dpath))

\* Indexer._index_path
_index_path(self, path) ==
    IF isdir(path) THEN [exc |-> "none", items |-> _index_dir(self, path)]
    ELSE IF isfile(path) THEN [exc |-> "none", items |-> <<path>>]
    ELSE [exc |-> "Exception", items |-> << >>]

\* The document with the whole path stored as the filename.
Document_whole_path(filepath, contents) ==
    [filename |-> filepath, path |-> filepath, content |-> contents]

\* The document Indexer._index_file builds for a file.
Document(filepath, contents) ==
    [filename |-> basename(filepath), path |-> filepath, content |-> contents]

\* Indexer._index_file with a writer buffer that holds the last document only.
_index_file_fresh_buffer(self, filepath) ==
    LET r == read_file(filepath)
    IN  IF r.exc # "none"
        THEN [self |-> self, exc |-> r.exc]
        ELSE [self |-> [self EXCEPT !._writer =
                           Some([The(@) EXCEPT !.buffer =
                                    <<Document(filepath, The(r.contents))>>])],
              exc |-> "none"]

\* Indexer._index_file
_index_file(self, filepath) ==
    LET r == read_file(filepath)
    IN  IF r.exc # "none"
        THEN [self |-> self, exc |-> r.exc]
        ELSE [self |-> [self EXCEPT !._writer =
                           Some(add_document(The(@), Document(filepath, The(r.contents))))],
              exc |-> "none"]

\* Indexer.index_text that, finding the lock held, takes it over.
index_text_start_forcing(self, dsk, i, path, recursive) ==
    IF self._index = None
    THEN [self |-> self, disk |-> dsk, exc |-> "AssertionError", todo |-> << >>]
    ELSE LET s1 == IF recursive # None
                   THEN [self EXCEPT !._is_recursive = The(recursive)]
                   ELSE self
             w == writer([dsk EXCEPT ![The(s1._index)].lock = 0], The(s1._index), i)
             s2 == [s1 EXCEPT !._writer = w.writer]
             ip == _index_path(s2, path)
         IN  [self |-> s2, disk |-> w.disk, exc |-> ip.exc, todo |-> ip.items]

\* Indexer.index_text up to the first _index_file call: the assertion, the
\* recursive argument, writer() and the dispatch of _index_path.
index_text_start(self, dsk, i, path, recursive) ==
    IF self._index = None
    THEN [self |-> self, disk |-> dsk, exc |-> "AssertionError", todo |-> << >>]
    ELSE LET s1 == IF recursive # None
                   THEN [self EXCEPT !._is_recursive = The(recursive)]
                   ELSE self
             w == writer(dsk, The(s1._index), i)
             s2 == [s1 EXCEPT !._writer = w.writer]
             ip == _index_path(s2, path)
         IN  IF w.exc # "none"
             THEN [self |-> s1, disk |-> dsk, exc |-> w.exc, todo |-> << >>]
             ELSE [self |-> s2, disk |-> w.disk, exc |-> ip.exc, todo |-> ip.items]

\* The last statement of Indexer.index_text: self._writer.commit().
index_text_commit(self, dsk) ==
    [self |-> [self EXCEPT !._writer = Some([buffer |-> << >>, closed |-> TRUE])],
     disk |-> commit(dsk, The(self._index), The(self._writer))]

\* The _index_file calls of one pass, in order, up to the first that raises.
RECURSIVE index_items(_, _)
index_items(self, items) ==
    IF items = << >> THEN [self |-> self, exc |-> "none"]
    ELSE LET r == _index_file(self, Head(items))
         IN  IF r.exc # "none" THEN r ELSE index_items(r.self, Tail(items))

\* Indexer.index_text, the whole call when nothing else runs during it.
index_text(self, dsk, i, path, recursive) ==
    LET b == index_text_start(self, dsk, i, path, recursive)
        r == index_items(b.self, b.todo)
        c == index_text_commit(r.self, b.disk)
    IN  IF b.exc # "none" THEN [self |-> b.self, disk |-> b.disk, exc |-> b.exc]
        ELSE IF r.exc # "none" THEN [self |-> r.self, disk |-> b.disk, exc |-> r.exc]
        ELSE [self |-> c.self, disk |-> c.disk, exc |-> "none"]

\* get_indexer
get_indexer(dsk, name, rebuild_index) ==
    open(Indexer(name, rebuild_index, INDEX_RECURSIVE), dsk, INDEXES_PATH)

\* index_path up to the first _index_file call.
index_path_start(dsk, i, path, name) ==
    LET g == get_indexer(dsk, name, TRUE)
    IN  IF g.exc # "none"
        THEN [self |-> g.self, disk |-> g.disk, exc |-> g.exc, todo |-> << >>]
        ELSE index_text_start(g.self, g.disk, i, path, None)

\* index_path with get_indexer's default, rebuild_index=False.
index_path_appending(dsk, i, path, name) ==
    LET g == get_indexer(dsk, name, FALSE)
    IN  IF g.exc # "none" THEN g ELSE index_text(g.self, g.disk, i, path, None)

\* index_path, the whole call when nothing else runs during it.
index_path(dsk, i, path, name) ==
    LET g == get_indexer(dsk, name, TRUE)
    IN  IF g.exc # "none" THEN g ELSE index_text(g.self, g.disk, i, path, None)

\* Indexer.doc_count
doc_count(self, dsk) == Len(dsk[The(self._index)].toc)

\* searcher.Searcher.find_path behind Index.search_path: the stored fields
\* of the committed documents whose path field is the given path.
search_path(self, dsk, path) ==
    LET toc == dsk[The(self._index)].toc
    IN  { [filename |-> toc[k].filename, path |-> toc[k].path] :
            k \in { j \in 1..Len(toc) : toc[j].path = path } }

\* ------------------------------------------------------------ actions
\* Instances are taken in the order of their slots.
Free(i) ==
    /\ frame[i].pc = "none"
    /\ \A j \in Slots : j < i => frame[j].pc # "none"

Init ==
    /\ disk = [n \in Names |-> [dir |-> "absent", toc |-> << >>, lock |-> 0]]
    /\ indexers = [i \in Slots |-> Indexer(CHOOSE n \in Names : TRUE, FALSE, FALSE)]
    /\ frame = [i \in Slots |-> NoFrame]
    /\ calls = 0

\* Indexer(name, rebuild_index=...); recursive defaults to False.
New(i, name, rebuild_index) ==
    /\ Free(i)
    /\ indexers' = [indexers EXCEPT ![i] = Indexer(name, rebuild_index, FALSE)]
    /\ frame' = [frame EXCEPT ![i] = Idle]
    /\ UNCHANGED <<disk, calls>>

\* idxr.open(index_path)
Open(i, ipath) ==
    /\ frame[i].pc = "idle"
    /\ LET r == open(indexers[i], disk, ipath)
       IN  /\ indexers' = [indexers EXCEPT ![i] = r.self]
           /\ disk' = r.disk
    /\ UNCHANGED <<frame, calls>>

\* idxr = get_indexer(name, rebuild_index)
GetIndexer(i, name, rebuild_index) ==
    /\ Free(i)
    /\ LET r == get_indexer(disk, name, rebuild_index)
       IN  /\ disk' = r.disk
           /\ IF r.exc = "none"
              THEN /\ indexers' = [indexers EXCEPT ![i] = r.self]
                   /\ frame' = [frame EXCEPT ![i] = Idle]
              ELSE UNCHANGED <<indexers, frame>>
    /\ UNCHANGED calls

\* The state after index_text's writer() and _index_path's dispatch.
Begin(i, op, r, path) ==
    /\ indexers' = [indexers EXCEPT ![i] = r.self]
    /\ disk' = r.disk
    /\ calls' = calls + 1
    /\ frame' = [frame EXCEPT ![i] =
                    IF r.exc = "none"
                    THEN [pc |-> "indexing", op |-> op, path |-> path, todo |-> r.todo]
                    ELSE Finished(op)]

\* idxr.index_text(path, recursive)
IndexText(i, path, recursive) ==
    /\ frame[i].pc = "idle"
    /\ calls < MaxCalls
    /\ Begin(i, "index_text", index_text_start(indexers[i], disk, i, path, recursive), path)

\* index_path(path, name)
IndexPath(i, path, name) ==
    /\ Free(i)
    /\ calls < MaxCalls
    /\ Begin(i, "index_path", index_path_start(disk, i, path, name), path)

\* One turn of the loop of _index_dir (or the one call of _index_path).
IndexFile(i) ==
    /\ frame[i].pc = "indexing"
    /\ frame[i].todo # << >>
    /\ LET r == _index_file(indexers[i], Head(frame[i].todo))
       IN  /\ indexers' = [indexers EXCEPT ![i] = r.self]
           /\ frame' = [frame EXCEPT ![i] =
                           IF r.exc = "none" THEN [@ EXCEPT !.todo = Tail(@)]
                           ELSE Finished(frame[i].op)]
    /\ UNCHANGED <<disk, calls>>

\* self._writer.commit(), and index_text returns.
Commit(i) ==
    /\ frame[i].pc = "indexing"
    /\ frame[i].todo = << >>
    /\ LET r == index_text_commit(indexers[i], disk)
       IN  /\ disk' = r.disk
           /\ indexers' = [indexers EXCEPT ![i] = r.self]
    /\ frame' = [frame EXCEPT ![i] = Finished(frame[i].op)]
    /\ UNCHANGED calls

\* The Indexer index_path dropped is reclaimed with the writer it left open:
\* the descriptor of the lock file closes, which frees the lock.  When this
\* happens, if ever, is the runtime's choice.
Collect(i) ==
    /\ frame[i].pc = "gone"
    /\ \E n \in Names : disk[n].lock = i
    /\ disk' = collect(disk, i)
    /\ UNCHANGED <<indexers, frame, calls>>

\* The paths given to index_text and index_path, and to open.
Targets == { <<nP>>, <<nQ>>, <<nR>>, <<nP, nA>>, <<nN>> }
IndexPaths == { INDEXES_PATH, <<nP, nA>> }
Recursive == { None, Some(TRUE), Some(FALSE) }

Next ==
    \/ \E i \in Slots, n \in Names, b \in BOOLEAN : New(i, n, b)
    \/ \E i \in Slots, p \in IndexPaths : Open(i, p)
    \/ \E i \in Slots, n \in Names, b \in BOOLEAN : GetIndexer(i, n, b)
    \/ \E i \in Slots, p \in Targets, r \in Recursive : IndexText(i, p, r)
    \/ \E i \in Slots, p \in Targets, n \in Names : IndexPath(i, p, n)
    \/ \E i \in Slots : IndexFile(i)
    \/ \E i \in Slots : Commit(i)
    \/ \E i \in Slots : Collect(i)

Spec == Init /\ [][Next]_vars

\* ------------------------------------------------------- vocabulary
\* An instance that is not one of the slots: the caller of a whole call.
Caller == NumSlots + 1
SecondCaller == NumSlots + 2

\* An opened handle on the index called n, as a reader has it.
Reader(n) == [Indexer(n, FALSE, FALSE) EXCEPT !._index = Some(n)]

Paths(toc) == { toc[k].path : k \in 1..Len(toc) }
AllPaths == Files \cup Dirs \cup Targets

\* The paths the pass of slot i hands to _index_file from start to end.
PassItems(i) == _index_path(indexers[i], frame[i].path).items

\* A step that starts an index_text call: calls counts it, and unlike
\* index_path it makes no new instance.
IndexTextStep ==
    /\ calls' # calls
    /\ \A i \in Slots : frame[i].pc = "none" => frame'[i].pc = "none"

IsHidden(name) == name[1] = "."
IsExcluded(name) ==
    \E suffix \in EXCLUDE_FILE_SUFFIX :
        /\ Len(name) >= Len(suffix)
        /\ \A k \in 1..Len(suffix) : name[Len(name) - Len(suffix) + k] = suffix[k]

\* ---------------------------------------------------------------- C1
\* C1: whenever a call to index_text has finished, normally or by raising,
\* the instance that made it holds no write lock.
C1_LockReleasedOnEveryExit ==
    \A i \in Slots : frame[i].pc = "idle" =>
        \A n \in Names : disk[n].lock # i

\* ---------------------------------------------------------------- C2
\* C2: in every reachable state of the index directory, open on an
\* Indexer built with rebuild_index=True leaves an index with no documents,
\* a committed index_text(p) that follows leaves exactly the documents of
\* the files the pass over p hands to _index_file, and open on an Indexer
\* built with rebuild_index=False leaves the committed documents as they were.
C2_RebuildEmptiesBeforeWriting ==
    \A n \in Names :
        LET o == open(Indexer(n, TRUE, FALSE), disk, INDEXES_PATH)
            k == open(Indexer(n, FALSE, FALSE), disk, INDEXES_PATH)
        IN  /\ o.exc = "none"
            /\ doc_count(o.self, o.disk) = 0
            /\ k.exc = "none" => k.disk[n].toc = disk[n].toc
            /\ \A p \in Targets, r \in Recursive :
                   LET t == index_text(o.self, o.disk, Caller, p, r)
                       items == _index_path(t.self, p).items
                       toc == t.disk[n].toc
                   IN  t.exc = "none" =>
                           /\ Len(toc) = Len(items)
                           /\ \A j \in 1..Len(items) : toc[j].path = items[j]

\* The index holds committed documents, and a rebuilding open followed by
\* index_text on a directory commits: the earlier documents are replaced.
C2_Witness ==
    \E n \in Names, p \in Targets :
        LET o == open(Indexer(n, TRUE, FALSE), disk, INDEXES_PATH)
            t == index_text(o.self, o.disk, Caller, p, Some(TRUE))
        IN  /\ isdir(p)
            /\ disk[n].toc # << >>
            /\ t.exc = "none"
            /\ Paths(disk[n].toc) \cap Paths(t.disk[n].toc) = {}

\* ---------------------------------------------------------------- C3
\* C3: a whole index_path(path, name) call that commits keeps every document
\* that was committed in the index called name before the call.
C3_IndexPathKeepsEarlierDocuments ==
    \A n \in Names, p \in Targets :
        LET r == index_path(disk, Caller, p, n)
        IN  r.exc = "none" => Paths(disk[n].toc) \subseteq Paths(r.disk[n].toc)

\* ---------------------------------------------------------------- C4
\* C4: every open on an existing directory returns normally with _index set
\* and _path = index_path/name; an open on anything else changes nothing.
C4_OpenCreatesOrOpens ==
    [][\A i \in Slots, ip \in IndexPaths :
          Open(i, ip) =>
              IF isdir(ip)
              THEN /\ indexers'[i]._index # None
                   /\ indexers'[i]._path = Some(join(ip, indexers[i]._name))
              ELSE UNCHANGED <<indexers, disk>>]_vars

\* ---------------------------------------------------------------- C5
\* C5: an index_text call on a directory that got its writer ends with a
\* commit, and every readable file the pass was to hand to _index_file is
\* then in the index.
C5_FileErrorDoesNotAbortPass ==
    \A i \in Slots, p \in Targets, r \in Recursive :
        LET t == index_text(indexers[i], disk, i, p, r)
            n == indexers[i]._name
            items == _index_path(t.self, p).items
        IN  (frame[i].pc = "idle" /\ isdir(p) /\ t.exc \notin {"AssertionError", "LockError"})
            => /\ t.exc = "none"
               /\ \A j \in 1..Len(items) :
                      read_file(items[j]).exc = "none" => items[j] \in Paths(t.disk[n].toc)

\* ---------------------------------------------------------------- C6
\* C6: the committed documents of an index change only in a rebuilding open
\* (to none) and in the commit that ends an index_text call, which adds the
\* documents of all the files of its pass at once; the steps of index_text
\* before the commit, the raising ones included, leave them as they are.
C6_NoPartialVisibility ==
    [][/\ IndexTextStep => \A n \in Names : disk'[n].toc = disk[n].toc
       /\ \A i \in Slots :
              /\ IndexFile(i) => \A n \in Names : disk'[n].toc = disk[n].toc
              /\ Commit(i) =>
                     LET n == indexers[i]._name
                         items == PassItems(i)
                         old == disk[n].toc
                         new == disk'[n].toc
                     IN  /\ Len(new) = Len(old) + Len(items)
                         /\ SubSeq(new, 1, Len(old)) = old
                         /\ \A j \in 1..Len(items) :
                                new[Len(old) + j].path = items[j]]_vars

\* A pass over a directory of several files has committed.
C6_Witness ==
    \E i \in Slots, n \in Names :
        /\ frame[i].pc \in {"idle", "gone"}
        /\ indexers[i]._writer = Some([buffer |-> << >>, closed |-> TRUE])
        /\ Len(disk[n].toc) >= 2

\* ---------------------------------------------------------------- C7
\* Every document search_path returns for a path has that path and its basename.
C7_StoredFields ==
    \A n \in Names, p \in AllPaths :
        \A d \in search_path(Reader(n), disk, p) :
            d.path = p /\ d.filename = p[Len(p)]

\* A commit makes every file of its pass found, with its path and basename.
C7_CommitMakesFound ==
    \A i \in Slots :
        Commit(i) => \A f \in Range(PassItems(i)) :
            \E d \in search_path(indexers'[i], disk', f) :
                d.path = f /\ d.filename = f[Len(f)]

\* What is found stays found unless the index is emptied.
C7_FoundUntilRebuilt ==
    \A n \in Names, p \in AllPaths :
        ( /\ disk'[n].toc # disk[n].toc
          /\ disk'[n].toc # << >>
          /\ search_path(Reader(n), disk, p) # {} )
            => search_path(Reader(n), disk', p) # {}

\* A path becomes found only in the commit of a pass that handed it over.
C7_FoundOnlyIfCommitted ==
    \A n \in Names, p \in AllPaths :
        ( /\ disk'[n].toc # disk[n].toc
          /\ search_path(Reader(n), disk, p) = {}
          /\ search_path(Reader(n), disk', p) # {} )
            => \E i \in Slots : Commit(i) /\ p \in Range(PassItems(i))

\* Nothing is found in an index no pass has committed to.
C7_NothingIndexed ==
    \A n \in Names, p \in AllPaths : search_path(Reader(n), disk, p) = {}

\* C7: when an index_text call commits, search_path(f) finds, for every file f
\* its pass handed to _index_file, a document with path f and filename the
\* basename of f, and goes on finding it until the index is created anew; a
\* document search_path returns for a path always has that path and its
\* basename; and a path for which search_path returned nothing is found only
\* after the commit of a pass that handed it to _index_file.
C7_RoundTrip ==
    /\ C7_NothingIndexed
    /\ []C7_StoredFields
    /\ [][C7_CommitMakesFound /\ C7_FoundUntilRebuilt /\ C7_FoundOnlyIfCommitted]_vars

\* A recursive pass has committed a file of a sub-directory.
C7_Witness ==
    \E n \in Names :
        /\ search_path(Reader(n), disk, <<nQ, nS, nD>>) # {}
        /\ \A i \in Slots : frame[i].pc # "indexing"

\* ---------------------------------------------------------------- C8
\* C8: in every reachable state, two whole index_path calls in a row on the
\* same path leave after the second the doc_count and the set of indexed
\* paths the first left, each path once, whether or not the Indexer of the
\* first call has been reclaimed by then.
C8_RebuildIdempotent ==
    \A n \in Names, p \in Targets :
        LET r1 == index_path(disk, Caller, p, n)
        IN  \A between \in { r1.disk, collect(r1.disk, Caller) } :
            LET r2 == index_path(between, SecondCaller, p, n)
            IN
            /\ doc_count(Reader(n), r2.disk) = doc_count(Reader(n), r1.disk)
            /\ Paths(r2.disk[n].toc) = Paths(r1.disk[n].toc)
            /\ Cardinality(Paths(r2.disk[n].toc)) = Len(r2.disk[n].toc)

\* The index holds what a committed index_path run on a directory leaves,
\* and a second run on that directory commits too.
C8_Witness ==
    \E n \in Names, p \in Targets :
        LET r1 == index_path(disk, Caller, p, n)
        IN  /\ isdir(p)
            /\ r1.exc = "none"
            /\ disk[n].toc # << >>
            /\ r1.disk[n].toc = disk[n].toc

\* ---------------------------------------------------------------- C9
\* One writing instance per index, and it holds the lock.
C9_OneWriter ==
    \A i \in Slots :
        frame[i].pc = "indexing" =>
            /\ disk[indexers[i]._name].lock = i
            /\ \A j \in Slots \ {i} :
                   frame[j].pc = "indexing" => indexers[j]._name # indexers[i]._name

\* An index_text started while instance j is writing fails and changes nothing.
C9_SecondFailsAtOnce ==
    \A j \in Slots :
        LET n == indexers[j]._name
            others == { i \in Slots : frame[i].pc = "idle" /\ indexers[i]._index # None }
        IN  ( /\ frame[j].pc = "indexing"
              /\ others # {}
              /\ \A i \in others : indexers[i]._index = Some(n)
              /\ IndexTextStep )
            => /\ \A i \in others, p \in Targets, r \in Recursive :
                      index_text_start(indexers[i], disk, i, p, r).exc = "LockError"
               /\ \A i \in Slots : indexers'[i]._writer = indexers[i]._writer
               /\ frame' = frame
               /\ disk' = disk
               /\ indexers'[j] = indexers[j]

\* C9: at most one instance per index is between writer() and commit(), and
\* it holds the write lock; an index_text that another instance starts
\* meanwhile on that index ends in the same step with LockError, gets no
\* writer, and changes neither the index nor the instance that is writing.
C9_SingleWriter ==
    /\ []C9_OneWriter
    /\ [][C9_SecondFailsAtOnce]_vars

\* An instance has opened the index and is idle while another is writing.
C9_Witness ==
    \E i \in Slots, j \in Slots :
        /\ i # j
        /\ frame[j].pc = "indexing"
        /\ frame[i].pc = "idle"
        /\ indexers[i]._index = Some(indexers[j]._name)
        /\ calls = 2

\* --------------------------------------------------------------- C10
\* C10: in a pass over a directory, recursive or flat, only regular files
\* are handed to _index_file, and the documents the pass commits have no
\* filename that starts with "." or ends with an excluded suffix.
C10_ExclusionRules ==
    [][\A i \in Slots :
          isdir(frame[i].path) =>
              /\ IndexFile(i) => isfile(Head(frame[i].todo))
              /\ Commit(i) =>
                     \A d \in Range(The(indexers[i]._writer).buffer) :
                         ~IsHidden(d.filename) /\ ~IsExcluded(d.filename)]_vars

====
